---- MODULE Spec2Model ----
(***************************************************************************)
(* Model of api_cnis: the /processar_cnis endpoint (main.py) and the CNIS  *)
(* parser parse_cnis (parsers/parser_cnis.py).                             *)
(*                                                                         *)
(* Text is modelled at character level: a string is a sequence of          *)
(* one-character strings, and every regular expression of the parser is an *)
(* operator that matches characters the way Python's re does (leftmost     *)
(* match, greedy quantifiers, \b word boundaries, re.IGNORECASE).          *)
(***************************************************************************)
EXTENDS Integers, Sequences, FiniteSets, TLC

\* Optional[T]: None is the empty tuple, a value x is the one-element tuple
None == <<>>

Some(x) == <<x>>

(***************************************************************************)
(* Characters                                                              *)
(***************************************************************************)
Digits == <<"0", "1", "2", "3", "4", "5", "6", "7", "8", "9">>

UpperChars == <<"A", "B", "C", "D", "E", "F", "G", "H", "I", "J", "K", "L", "M",
                "N", "O", "P", "Q", "R", "S", "T", "U", "V", "W", "X", "Y", "Z",
                "Á", "É", "Í", "Ó", "Ú", "Â", "Ê", "Ô", "Ã", "Õ", "Ç">>

LowerChars == <<"a", "b", "c", "d", "e", "f", "g", "h", "i", "j", "k", "l", "m",
                "n", "o", "p", "q", "r", "s", "t", "u", "v", "w", "x", "y", "z",
                "á", "é", "í", "ó", "ú", "â", "ê", "ô", "ã", "õ", "ç">>

AsciiLetters == 26

Range(s) == {s[k] : k \in DOMAIN s}

DigitChars == Range(Digits)

AsciiUpperChars == {UpperChars[k] : k \in 1..AsciiLetters}

AsciiLowerChars == {LowerChars[k] : k \in 1..AsciiLetters}

\* \w of a str pattern: Unicode letters, digits and underscore
WordChars == Range(UpperChars) \cup Range(LowerChars) \cup DigitChars \cup {"_"}

\* \s, and the characters str.strip() removes
SpaceChars == {" ", "\t", "\n", "\r"}

IsDigit(c) == c \in DigitChars

IsAsciiUpper(c) == c \in AsciiUpperChars

IsAsciiLower(c) == c \in AsciiLowerChars

IsWord(c) == c \in WordChars

IsSpace(c) == c \in SpaceChars

\* str.lower() of each upper-case character
LowerMap ==
    [c \in Range(UpperChars) |-> LowerChars[CHOOSE k \in DOMAIN UpperChars : UpperChars[k] = c]]

\* str.lower(), one character
LowerChar(c) == IF c \in DOMAIN LowerMap THEN LowerMap[c] ELSE c

Lower(s) == [k \in DOMAIN s |-> LowerChar(s[k])]

DigitMap == [c \in DigitChars |-> (CHOOSE k \in DOMAIN Digits : Digits[k] = c) - 1]

DigitVal(c) == DigitMap[c]

\* int(txt) for a string of decimal digits
RECURSIVE ToInt(_)
ToInt(s) ==
    IF s = <<>> THEN 0
    ELSE 10 * ToInt(SubSeq(s, 1, Len(s) - 1)) + DigitVal(s[Len(s)])

(***************************************************************************)
(* Python string primitives.  Positions are 1-based here; a Python index p *)
(* (0-based) is the position p + 1.                                        *)
(***************************************************************************)
\* s[a:b] with Python's 0-based, half-open, clamped indices
Slice(s, a, b) ==
    LET norm(x) == IF x < 0 THEN (IF Len(s) + x < 0 THEN 0 ELSE Len(s) + x)
                   ELSE (IF x > Len(s) THEN Len(s) ELSE x)
    IN  SubSeq(s, norm(a) + 1, norm(b))

\* str.strip()
Strip(s) ==
    IF \A k \in DOMAIN s : IsSpace(s[k]) THEN <<>>
    ELSE SubSeq(s,
                CHOOSE k \in DOMAIN s : ~IsSpace(s[k]) /\ \A j \in 1..(k - 1) : IsSpace(s[j]),
                CHOOSE k \in DOMAIN s : ~IsSpace(s[k]) /\ \A j \in (k + 1)..Len(s) : IsSpace(s[j]))

\* s[i..] starts with needle
StartsAt(s, i, needle) ==
    /\ i + Len(needle) - 1 <= Len(s)
    /\ \A k \in DOMAIN needle : s[i + k - 1] = needle[k]

\* needle in s
Contains(s, needle) == \E i \in 1..(Len(s) - Len(needle) + 1) : StartsAt(s, i, needle)

\* s.endswith(suffix)
EndsWith(s, suffix) ==
    /\ Len(s) >= Len(suffix)
    /\ SubSeq(s, Len(s) - Len(suffix) + 1, Len(s)) = suffix

\* str.split(sep) for a one-character separator
\* the pieces of s from position a on
RECURSIVE SplitFrom(_, _, _)
SplitFrom(s, sep, a) ==
    IF \A k \in a..Len(s) : s[k] # sep THEN <<SubSeq(s, a, Len(s))>>
    ELSE LET p == CHOOSE k \in a..Len(s) : s[k] = sep /\ \A j \in a..(k - 1) : s[j] # sep
         IN  <<SubSeq(s, a, p - 1)>> \o SplitFrom(s, sep, p + 1)

SplitOn(s, sep) == SplitFrom(s, sep, 1)

\* [t for t in re.split(r"\s+", s) if t.strip()]: the maximal runs of
\* non-whitespace characters of s from position a on
RECURSIVE SplitWsFrom(_, _)
SplitWsFrom(s, a) ==
    IF \A k \in a..Len(s) : IsSpace(s[k]) THEN <<>>
    ELSE LET b == CHOOSE k \in a..Len(s) : ~IsSpace(s[k]) /\ \A j \in a..(k - 1) : IsSpace(s[j])
             e == CHOOSE k \in b..(Len(s) + 1) :
                      (k > Len(s) \/ IsSpace(s[k])) /\ \A j \in b..(k - 1) : ~IsSpace(s[j])
         IN  <<SubSeq(s, b, e - 1)>> \o SplitWsFrom(s, e)

SplitWs(s) == SplitWsFrom(s, 1)

(***************************************************************************)
(* Regular-expression primitives                                           *)
(***************************************************************************)
WordAt(s, p) == p >= 1 /\ p <= Len(s) /\ IsWord(s[p])

\* \b between positions p - 1 and p
WB(s, p) == WordAt(s, p - 1) # WordAt(s, p)

\* \d{n} at position p
DigitsAt(s, p, n) == p + n - 1 <= Len(s) /\ \A k \in p..(p + n - 1) : IsDigit(s[k])

CharAt(s, p, c) == p <= Len(s) /\ s[p] = c

\* length of the longest run of characters of class cls starting at p
RunLen(s, p, cls(_)) ==
    IF p > Len(s) THEN 0
    ELSE (CHOOSE q \in p..(Len(s) + 1) :
              (q > Len(s) \/ ~cls(s[q])) /\ \A k \in p..(q - 1) : cls(s[k])) - p

\* leftmost position >= from where M holds, 0 if none
First(s, from, M(_, _)) ==
    IF \A i \in from..Len(s) : ~M(s, i) THEN 0
    ELSE CHOOSE i \in from..Len(s) : M(s, i) /\ \A j \in from..(i - 1) : ~M(s, j)

\* start positions of the non-overlapping matches of a fixed-width pattern
\* (finditer / findall)
FindAllFrom(s, from, M(_, _), width) ==
    LET RECURSIVE all(_)
        all(p) == LET i == First(s, p, M)
                  IN  IF i = 0 THEN <<>> ELSE <<i>> \o all(i + width)
    IN  all(from)

(***************************************************************************)
(* The parser's patterns                                                   *)
(***************************************************************************)
\* RE_DATA = \b\d{2}/\d{2}/\d{4}\b
RE_DATA(s, i) ==
    /\ DigitsAt(s, i, 2) /\ CharAt(s, i + 2, "/")
    /\ DigitsAt(s, i + 3, 2) /\ CharAt(s, i + 5, "/")
    /\ DigitsAt(s, i + 6, 4)
    /\ WB(s, i)
    /\ WB(s, i + 10)

DataWidth == 10

\* RE_MES_ANO = \b\d{2}/\d{4}\b
RE_MES_ANO(s, i) ==
    /\ DigitsAt(s, i, 2) /\ CharAt(s, i + 2, "/")
    /\ DigitsAt(s, i + 3, 4)
    /\ WB(s, i)
    /\ WB(s, i + 7)

MesAnoWidth == 7

\* the matched strings of the matches that start at the given positions
MesAnoGrupos(s, starts) ==
    [k \in DOMAIN starts |-> SubSeq(s, starts[k], starts[k] + MesAnoWidth - 1)]

\* RE_MES_ANO.findall(s)
MesAnoFindAll(s) == MesAnoGrupos(s, FindAllFrom(s, 1, RE_MES_ANO, MesAnoWidth))

IsValorChar(c) == IsDigit(c) \/ c = "." \/ c = ","

\* [\d\.\,]+\b at position d: the greedy run backs off to the longest length
\* that ends at a word boundary; 0 when there is none
ValorLenAt(s, d) ==
    LET ok == {n \in 1..RunLen(s, d, IsValorChar) : WB(s, d + n)}
    IN  IF ok = {} THEN 0 ELSE CHOOSE n \in ok : \A m \in ok : n >= m

\* -?[\d\.\,]+\b at position v: -? takes the minus sign when there is one
RemunValorFrom(s, v) ==
    IF CharAt(s, v, "-")
    THEN (IF ValorLenAt(s, v + 1) > 0 THEN 1 + ValorLenAt(s, v + 1) ELSE 0)
    ELSE ValorLenAt(s, v)

\* RE_REMUN = \b(\d{2}/\d{4})\s+(-?[\d\.\,]+)\b matched at position i:
\* the number of characters of group 2, 0 when there is no match at i.
\* \s+ takes the whole whitespace run.
RemunValorLen(s, i) ==
    IF ~(DigitsAt(s, i, 2) /\ CharAt(s, i + 2, "/") /\ DigitsAt(s, i + 3, 4) /\ WB(s, i))
    THEN 0
    ELSE IF RunLen(s, i + MesAnoWidth, IsSpace) = 0 THEN 0
    ELSE RemunValorFrom(s, i + MesAnoWidth + RunLen(s, i + MesAnoWidth, IsSpace))

RE_REMUN(s, i) == RemunValorLen(s, i) > 0

\* the two groups of the RE_REMUN match that starts at position i, whose
\* group 2 starts at position v
RemunGroupsFrom(s, i, v) ==
    [g1 |-> SubSeq(s, i, i + MesAnoWidth - 1),
     g2 |-> SubSeq(s, v, v + RemunValorLen(s, i) - 1)]

RemunGroups(s, i) ==
    RemunGroupsFrom(s, i, i + MesAnoWidth + RunLen(s, i + MesAnoWidth, IsSpace))

\* the result of a search whose leftmost match starts at i (0: no match)
RemunSearchAt(s, i) == IF i = 0 THEN None ELSE Some(RemunGroups(s, i))

\* RE_REMUN.search(s): None, or the two groups of the leftmost match
RemunSearch(s) == RemunSearchAt(s, First(s, 1, RE_REMUN))

\* position just after the RE_REMUN match that starts at i
RemunEnd(s, i) == i + MesAnoWidth + RunLen(s, i + MesAnoWidth, IsSpace) + RemunValorLen(s, i)

RECURSIVE RemunFindAll(_, _)
\* the matches from the one that starts at i on (0: no more matches)
RemunFindAllAt(s, i) ==
    IF i = 0 THEN <<>> ELSE <<RemunGroups(s, i)>> \o RemunFindAll(s, RemunEnd(s, i))

\* RE_REMUN.finditer(s): the groups of all the non-overlapping matches
RemunFindAll(s, from) == RemunFindAllAt(s, First(s, from, RE_REMUN))

Empregado == <<"e", "m", "p", "r", "e", "g", "a", "d", "o">>

\* RE_EMPREGADO_TOKEN = \bEmpregado\b, re.IGNORECASE
RE_EMPREGADO_TOKEN(s, i) ==
    /\ i + Len(Empregado) - 1 <= Len(s)
    /\ \A k \in DOMAIN Empregado : LowerChar(s[i + k - 1]) = Empregado[k]
    /\ WB(s, i)
    /\ WB(s, i + Len(Empregado))

\* RE_NIT_VAL = \b\d\.\d{3}\.\d{3}\.\d{3}-\d\b
RE_NIT_VAL(s, i) ==
    /\ DigitsAt(s, i, 1) /\ CharAt(s, i + 1, ".")
    /\ DigitsAt(s, i + 2, 3) /\ CharAt(s, i + 5, ".")
    /\ DigitsAt(s, i + 6, 3) /\ CharAt(s, i + 9, ".")
    /\ DigitsAt(s, i + 10, 3) /\ CharAt(s, i + 13, "-")
    /\ DigitsAt(s, i + 14, 1)
    /\ WB(s, i)
    /\ WB(s, i + 15)

NitWidth == 15

\* RE_CNPJ = \b\d{2}\.\d{3}\.\d{3}/\d{4}-\d{2}\b
RE_CNPJ(s, i) ==
    /\ DigitsAt(s, i, 2) /\ CharAt(s, i + 2, ".")
    /\ DigitsAt(s, i + 3, 3) /\ CharAt(s, i + 6, ".")
    /\ DigitsAt(s, i + 7, 3) /\ CharAt(s, i + 10, "/")
    /\ DigitsAt(s, i + 11, 4) /\ CharAt(s, i + 15, "-")
    /\ DigitsAt(s, i + 16, 2)
    /\ WB(s, i)
    /\ WB(s, i + 18)

CnpjWidth == 18

\* first alternative of RE_CODIGO_EMP_ALT: \b\d{2}\.\d{3}\.\d{3}\.\d{2}-\d\b
CeiAt(s, i) ==
    /\ DigitsAt(s, i, 2) /\ CharAt(s, i + 2, ".")
    /\ DigitsAt(s, i + 3, 3) /\ CharAt(s, i + 6, ".")
    /\ DigitsAt(s, i + 7, 3) /\ CharAt(s, i + 10, ".")
    /\ DigitsAt(s, i + 11, 2) /\ CharAt(s, i + 13, "-")
    /\ DigitsAt(s, i + 14, 1)
    /\ WB(s, i)
    /\ WB(s, i + 15)

CeiWidth == 15

CodigoMinDigits == 11

CodigoMaxDigits == 14

\* RE_CODIGO_EMP_ALT matched at i: the length of the match, 0 when none.
\* Second alternative \b\d{11,14}\b: a whole run of 11 to 14 digits.
CodigoAltLen(s, i) ==
    IF CeiAt(s, i) THEN CeiWidth
    ELSE LET n == RunLen(s, i, IsDigit)
         IN  IF i <= Len(s) /\ IsDigit(s[i]) /\ WB(s, i) /\ n >= CodigoMinDigits /\ n <= CodigoMaxDigits /\ WB(s, i + n)
             THEN n ELSE 0

RE_CODIGO_EMP_ALT(s, i) == CodigoAltLen(s, i) > 0

SeqMaxDigits == 4

\* (\d{1,4})\s+ at position a, where the run of digits has length n
SeqInicioDigits(s, a, n) ==
    IF n >= 1 /\ n <= SeqMaxDigits /\ RunLen(s, a + n, IsSpace) >= 1
    THEN Some([g1 |-> SubSeq(s, a, a + n - 1), end |-> a + n + RunLen(s, a + n, IsSpace) - 1])
    ELSE None

SeqInicioFrom(s, a) == SeqInicioDigits(s, a, RunLen(s, a, IsDigit))

\* RE_SEQ_INICIO = ^\s*(\d{1,4})\s+ : None, or the string of group 1 and
\* the Python index where the match ends
SeqInicioSearch(s) == SeqInicioFrom(s, 1 + RunLen(s, 1, IsSpace))

IsIndChar(c) == IsAsciiUpper(c) \/ IsDigit(c) \/ c = "_"

IndMaxTail == 15

\* RE_IND_TOKENS = \b[A-Z][A-Z0-9_]{1,15}\b matched at i: length, 0 when none
IndTokenLen(s, i) ==
    IF ~(i <= Len(s) /\ IsAsciiUpper(s[i]) /\ WB(s, i)) THEN 0
    ELSE LET ok == {n \in 1..IndMaxTail : n <= RunLen(s, i + 1, IsIndChar) /\ WB(s, i + 1 + n)}
         IN  IF ok = {} THEN 0 ELSE 1 + (CHOOSE n \in ok : \A m \in ok : n >= m)

RE_IND_TOKENS(s, i) == IndTokenLen(s, i) > 0

RECURSIVE IndFindAll(_, _)
\* the matches from the one that starts at i on (0: no more matches)
IndFindAllAt(s, i) ==
    IF i = 0 THEN <<>>
    ELSE <<SubSeq(s, i, i + IndTokenLen(s, i) - 1)>> \o IndFindAll(s, i + IndTokenLen(s, i))

\* RE_IND_TOKENS.findall(s)
IndFindAll(s, from) == IndFindAllAt(s, First(s, from, RE_IND_TOKENS))

IsIdChar(c) == IsDigit(c) \/ c = "." \/ c = "-"

\* ([\d\.\-]+) at position q: the span of the greedy run
LabelSpan(s, q) == <<q, q + RunLen(s, q, IsIdChar) - 1>>

\* \s*[:\-]?\s*([\d\.\-]+) once the first \s* has run up to p; q is the
\* position after a separator at p and the whitespace that follows it.  When
\* the separator is a "-" with no value after it, [:\-]? gives it back and
\* the value starts at p.
LabelValueAt(s, p, q) ==
    IF (CharAt(s, p, ":") \/ CharAt(s, p, "-")) /\ RunLen(s, q, IsIdChar) > 0
    THEN LabelSpan(s, q)
    ELSE IF RunLen(s, p, IsIdChar) > 0
    THEN LabelSpan(s, p)
    ELSE <<0, 0>>

LabelValue(s, p) == LabelValueAt(s, p, p + 1 + RunLen(s, p + 1, IsSpace))

\* \bLABEL\b\s*[:\-]?\s*([\d\.\-]+) with re.IGNORECASE matched at i (RE_CPF,
\* RE_NIT_ID): the span <<first, last>> of group 1, <<0, 0>> when none
LabelGroup(s, i, label) ==
    IF ~(/\ i + Len(label) - 1 <= Len(s)
         /\ \A k \in DOMAIN label : LowerChar(s[i + k - 1]) = label[k]
         /\ WB(s, i) /\ WB(s, i + Len(label)))
    THEN <<0, 0>>
    ELSE LabelValue(s, i + Len(label) + RunLen(s, i + Len(label), IsSpace))

LabelCpf == <<"c", "p", "f">>

LabelNit == <<"n", "i", "t">>

RE_CPF(s, i) == LabelGroup(s, i, LabelCpf)[1] > 0

RE_NIT_ID(s, i) == LabelGroup(s, i, LabelNit)[1] > 0

(***************************************************************************)
(* Utilities of the parser                                                 *)
(***************************************************************************)
\* the fraction digits without trailing zeros
SemZerosFinais(frac) ==
    LET sig == {k \in DOMAIN frac : frac[k] # "0"}
    IN  SubSeq(frac, 1, IF sig = {} THEN 0 ELSE CHOOSE k \in sig : \A j \in sig : k >= j)

\* the float of an unsigned decimal with its point at position pt
FloatValue(body, neg, pt) ==
    Some([neg     |-> neg,
          inteiro |-> ToInt(SubSeq(body, 1, pt - 1)),
          frac    |-> SemZerosFinais(SubSeq(body, pt + 1, Len(body)))])

\* float() of digits and points: None (ValueError) unless there is a digit
\* and at most one point
ParseUnsigned(body, neg) ==
    LET points == {k \in DOMAIN body : body[k] = "."}
    IN  IF \/ Cardinality(points) > 1
           \/ \A k \in DOMAIN body : ~IsDigit(body[k])
           \/ \E k \in DOMAIN body : ~(IsDigit(body[k]) \/ body[k] = ".")
        THEN None
        ELSE FloatValue(body, neg,
                        IF points = {} THEN Len(body) + 1 ELSE CHOOSE k \in points : TRUE)

\* float(t).  The float is represented by its sign, its integer part and its
\* fraction digits without trailing zeros.
ParseFloat(t) ==
    IF t # <<>> /\ t[1] = "-" THEN ParseUnsigned(Tail(t), TRUE) ELSE ParseUnsigned(t, FALSE)

\* s.replace(",", ".")
PontoPorVirgula(s) == [k \in DOMAIN s |-> IF s[k] = "," THEN "." ELSE s[k]]

\* _to_float_ptbr: float(txt.replace(".", "").replace(",", ".")), None when
\* float() raises
ToFloatPtbr(txt) == ParseFloat(PontoPorVirgula(SelectSeq(txt, LAMBDA c : c # ".")))

Indicador == <<"I", "n", "d", "i", "c", "a", "d", "o", "r">>

Descricao == <<"D", "e", "s", "c", "r", "i", "ç", "ã", "o">>

\* _is_likely_vinculo_line without the column-header guard
IsLikelyVinculoLineSemGuarda(raw_line) ==
    IF SeqInicioSearch(raw_line) = None THEN FALSE
    ELSE IF First(raw_line, 1, RE_EMPREGADO_TOKEN) = 0 THEN FALSE
    ELSE IF First(raw_line, 1, RE_DATA) = 0 THEN FALSE
    ELSE TRUE

\* _is_likely_vinculo_line
IsLikelyVinculoLine(raw_line) ==
    IF SeqInicioSearch(raw_line) = None THEN FALSE
    ELSE IF First(raw_line, 1, RE_EMPREGADO_TOKEN) = 0 THEN FALSE
    ELSE IF First(raw_line, 1, RE_DATA) = 0 THEN FALSE
    ELSE IF Contains(raw_line, Indicador) /\ Contains(raw_line, Descricao) THEN FALSE
    ELSE TRUE

\* the result of _extract_datas_from_line for the match positions datas
DatasDe(line, datas) ==
    IF datas = <<>>
    THEN [data_inicio |-> None, data_fim |-> None,
          idx_inicio_data1 |-> -1, idx_fim_ultima_data |-> -1]
    ELSE [data_inicio |-> Some(SubSeq(line, datas[1], datas[1] + DataWidth - 1)),
          data_fim |-> IF Len(datas) >= 2
                       THEN Some(SubSeq(line, datas[2], datas[2] + DataWidth - 1))
                       ELSE None,
          idx_inicio_data1 |-> datas[1] - 1,
          idx_fim_ultima_data |-> datas[Len(datas)] - 1 + DataWidth]

\* _extract_datas_from_line; the two indices are Python (0-based) indices
ExtractDatasFromLine(line) == DatasDe(line, FindAllFrom(line, 1, RE_DATA, DataWidth))

\* (pre[:m.start()] + " " + pre[m.end():]).strip() for a match at position i
\* of the given width
Remove(pre, i, width) ==
    Strip(SubSeq(pre, 1, i - 1) \o <<" ">> \o SubSeq(pre, i + width, Len(pre)))

\* lines 138-141: what is left is the employer name
ComNomeEmpresa(sequencial, nit_vinculo, codigo_emp, pre) ==
    [sequencial   |-> sequencial,
     nit_vinculo  |-> nit_vinculo,
     codigo_emp   |-> codigo_emp,
     nome_empresa |-> IF Strip(pre) # <<>> THEN Some(Strip(pre)) ELSE None]

\* lines 125-136: the employer code, a CNPJ at mc or else an alternative code
\* at mc2 (0: no match)
ComCodigoEmp(sequencial, nit_vinculo, pre, mc, mc2) ==
    IF mc # 0
    THEN ComNomeEmpresa(sequencial, nit_vinculo,
                        Some(SubSeq(pre, mc, mc + CnpjWidth - 1)),
                        Remove(pre, mc, CnpjWidth))
    ELSE IF mc2 # 0
    THEN ComNomeEmpresa(sequencial, nit_vinculo,
                        Some(SubSeq(pre, mc2, mc2 + CodigoAltLen(pre, mc2) - 1)),
                        Remove(pre, mc2, CodigoAltLen(pre, mc2)))
    ELSE ComNomeEmpresa(sequencial, nit_vinculo, None, pre)

BuscaCodigoEmp(sequencial, nit_vinculo, pre) ==
    ComCodigoEmp(sequencial, nit_vinculo, pre,
                 First(pre, 1, RE_CNPJ), First(pre, 1, RE_CODIGO_EMP_ALT))

\* lines 118-123: the first NIT of pre, at mnit (0: no match)
ComNit(sequencial, pre, mnit) ==
    IF mnit # 0
    THEN BuscaCodigoEmp(sequencial, Some(SubSeq(pre, mnit, mnit + NitWidth - 1)),
                        Remove(pre, mnit, NitWidth))
    ELSE BuscaCodigoEmp(sequencial, None, pre)

\* lines 107-116: the sequential, and pre without it
ComSequencial(mseq, pre) ==
    IF mseq # None
    THEN ComNit(Some(ToInt(mseq[1].g1)),
                Strip(Slice(pre, mseq[1].end, Len(pre))),
                First(Strip(Slice(pre, mseq[1].end, Len(pre))), 1, RE_NIT_VAL))
    ELSE ComNit(None, pre, First(pre, 1, RE_NIT_VAL))

NitCodigoEmpresaDe(raw, idx_inicio_data) ==
    ComSequencial(SeqInicioSearch(raw), Strip(Slice(raw, 0, idx_inicio_data)))

\* _extract_nit_and_codigo_and_empresa
ExtractNitAndCodigoAndEmpresa(line, idx_inicio_data) ==
    NitCodigoEmpresaDe(Strip(line), idx_inicio_data)

MatriculaMinLen == 4

MatriculaMaxLen == 40

\* re.fullmatch(r"[A-Za-z0-9\-_/]{4,40}", t)
IsMatricula(t) ==
    /\ Len(t) >= MatriculaMinLen /\ Len(t) <= MatriculaMaxLen
    /\ \A k \in DOMAIN t :
          IsAsciiUpper(t[k]) \/ IsAsciiLower(t[k]) \/ IsDigit(t[k]) \/ t[k] \in {"-", "_", "/"}

\* RE_MES_ANO.fullmatch(t)
IsMesAno(t) == Len(t) = MesAnoWidth /\ RE_MES_ANO(t, 1)

\* removes duplicates, keeping the first occurrence of each
Dedup(inds) ==
    LET RECURSIVE pick(_)
        pick(k) == IF k > Len(inds) THEN <<>>
                   ELSE (IF \A j \in 1..(k - 1) : inds[j] # inds[k] THEN <<inds[k]>> ELSE <<>>)
                        \o pick(k + 1)
    IN  pick(1)

\* meses[-1] if meses else None
UltimoDe(meses) == IF meses # <<>> THEN Some(meses[Len(meses)]) ELSE None

\* lines 166-174: the first token that is not MM/AAAA and looks like a code
MatriculaDe(tokens) ==
    LET strong == {k \in DOMAIN tokens : ~IsMesAno(tokens[k]) /\ IsMatricula(tokens[k])}
    IN  IF strong = {} THEN None
        ELSE Some(tokens[CHOOSE k \in strong : \A j \in strong : k <= j])

\* lines 176-191: the indicator tokens of the text after "Empregado";
\* tok.upper() in ("CPF", "NIT"), the tokens being upper case already
IndicadoresDe(after) ==
    Dedup(SelectSeq(IndFindAll(after, 1),
                    LAMBDA tok : Lower(tok) # LabelCpf /\ Lower(tok) # LabelNit))

\* lines 158-193, for the text mid between the last date and "Empregado" and
\* the text after it
MatriculaEIndicadoresDe(mid, after) ==
    [matricula          |-> MatriculaDe(SplitWs(mid)),
     indicadores        |-> IndicadoresDe(after),
     ultima_remun_linha |-> UltimoDe(MesAnoFindAll(mid))]

\* lines 153-159, memp being the position of "Empregado" (0: no match)
ComEmpregadoEm(line, idx_fim_ultima_data, memp) ==
    IF memp = 0
    THEN [matricula |-> None, indicadores |-> <<>>, ultima_remun_linha |-> None]
    ELSE MatriculaEIndicadoresDe(Strip(Slice(line, idx_fim_ultima_data, memp - 1)),
                                 SubSeq(line, memp + Len(Empregado), Len(line)))

\* _extract_matricula_and_indicadores
ExtractMatriculaAndIndicadores(line, idx_fim_ultima_data) ==
    ComEmpregadoEm(line, idx_fim_ultima_data, First(line, 1, RE_EMPREGADO_TOKEN))

\* meses.extend(RE_MES_ANO.findall(ln)) for every line of the block
RECURSIVE BlockMeses(_)
BlockMeses(block_lines) ==
    IF block_lines = <<>> THEN <<>>
    ELSE MesAnoFindAll(Head(block_lines)) \o BlockMeses(Tail(block_lines))

\* _extract_ultima_remun_from_block taking meses[0]
ExtractPrimeiraRemunFromBlock(block_lines) ==
    IF BlockMeses(block_lines) # <<>> THEN Some(BlockMeses(block_lines)[1]) ELSE None

\* _extract_ultima_remun_from_block
ExtractUltimaRemunFromBlock(block_lines) == UltimoDe(BlockMeses(block_lines))

Emitido == <<"e", "m", "i", "t", "i", "d", "o">>

PaginaAcento == <<"p", "á", "g", "i", "n", "a">>

Pagina == <<"p", "a", "g", "i", "n", "a">>

\* _is_noise_line_for_remun without the accented "página"
IsNoiseLineSemAcento(line) ==
    LET low == Lower(line)
    IN  IF Contains(low, Emitido) \/ Contains(low, Pagina)
        THEN TRUE
        ELSE IF Contains(line, Lower(Indicador)) /\ Contains(Lower(line), Lower(Descricao))
        THEN TRUE
        ELSE FALSE

\* _is_noise_line_for_remun
IsNoiseLineForRemun(line) ==
    LET low == Lower(line)
    IN  IF Contains(low, Emitido) \/ Contains(low, PaginaAcento) \/ Contains(low, Pagina)
        THEN TRUE
        ELSE IF Contains(line, Lower(Indicador)) /\ Contains(Lower(line), Lower(Descricao))
        THEN TRUE
        ELSE FALSE

\* m.group(1).strip() for the span of group 1
LabelGrupo(texto, span) == Some(Strip(SubSeq(texto, span[1], span[2])))

\* the result of a search whose leftmost match starts at i (0: no match)
LabelSearchAt(texto, label, i) ==
    IF i = 0 THEN None ELSE LabelGrupo(texto, LabelGroup(texto, i, label))

\* RE_CPF.search(texto) / RE_NIT_ID.search(texto), then m.group(1).strip()
LabelSearch(texto, label) ==
    LET M(s, i) == LabelGroup(s, i, label)[1] > 0
    IN  LabelSearchAt(texto, label, First(texto, 1, M))

\* resultado["identificacao"]: a key the code does not set is None here
Identificacao(texto) ==
    [cpf |-> LabelSearch(texto, LabelCpf), nit |-> LabelSearch(texto, LabelNit)]

(***************************************************************************)
(* Inputs: the uploaded file names and the text pdfplumber extracts from   *)
(* a page                                                                  *)
(***************************************************************************)
\* a record line with sequential, CNPJ, employer, both dates, an inline
\* month/year and an indicator
LinhaVinculoCompleto ==
    <<"1", " ", "1", "2", ".", "3", "4", "5", ".", "6", "7", "8", "/", "0",
      "0", "0", "1", "-", "9", "9", " ", "A", "C", "M", "E", " ", "0", "1",
      "/", "0", "1", "/", "2", "0", "2", "0", " ", "3", "1", "/", "0", "3",
      "/", "2", "0", "2", "0", " ", "0", "3", "/", "2", "0", "2", "0", " ",
      "E", "m", "p", "r", "e", "g", "a", "d", "o", " ", "I", "R", "E", "M">>

\* a record line with nothing but the sequential, the date and the keyword
LinhaVinculoMinimo ==
    <<"7", " ", "0", "1", "/", "0", "2", "/", "2", "0", "2", "0", " ", "E",
      "m", "p", "r", "e", "g", "a", "d", "o">>

\* one competency and amount
LinhaRemun ==
    <<"0", "1", "/", "2", "0", "2", "0", " ", "1", "0", "0", ",", "0", "0">>

\* two competencies and amounts on one line, the first amount negative
LinhaRemunDupla ==
    <<"0", "2", "/", "2", "0", "2", "0", " ", "-", "1", "5", "0", ",", "0",
      "0", " ", "0", "3", "/", "2", "0", "2", "0", " ", "1", ".", "2", "3",
      "4", ",", "5", "6">>

\* a page footer that also carries a competency and an amount
LinhaRodape ==
    <<"P", "á", "g", "i", "n", "a", " ", "2", " ", "0", "4", "/", "2", "0",
      "2", "0", " ", "5", "0", ",", "0", "0">>

\* a header phrase with the keyword and a date, without sequential
LinhaCabecalhoOrigem ==
    <<"O", "r", "i", "g", "e", "m", " ", "d", "o", " ", "V", "í", "n", "c",
      "u", "l", "o", " ", "E", "m", "p", "r", "e", "g", "a", "d", "o", " ",
      "0", "1", "/", "0", "1", "/", "2", "0", "2", "0">>

\* a column header that otherwise looks like a record line
LinhaCabecalhoIndicador ==
    <<"3", " ", "I", "n", "d", "i", "c", "a", "d", "o", "r", " ", "D", "e",
      "s", "c", "r", "i", "ç", "ã", "o", " ", "E", "m", "p", "r", "e", "g",
      "a", "d", "o", " ", "0", "1", "/", "0", "1", "/", "2", "0", "2", "0">>

\* the identification line
LinhaIdentificacao ==
    <<"C", "P", "F", ":", " ", "1", "2", "3", ".", "4", "5", "6", ".", "7",
      "8", "9", "-", "0", "0", " ", "N", "I", "T", " ", "1", ".", "1", "1",
      "2", ".", "7", "9", "8", ".", "8", "5", "7", "-", "8">>

\* a record-like line whose leading number has five digits
LinhaNumeroLongo ==
    <<"1", "2", "3", "4", "5", " ", "0", "1", "/", "0", "2", "/", "2", "0",
      "2", "0", " ", "E", "m", "p", "r", "e", "g", "a", "d", "o">>

\* a page of two lines: a record line and one remuneration
PaginaDuasLinhas == LinhaVinculoMinimo \o <<"\n">> \o LinhaRemun

Linhas ==
    {LinhaVinculoCompleto, LinhaVinculoMinimo, LinhaRemun, LinhaRemunDupla, LinhaRodape,
     LinhaCabecalhoOrigem, LinhaCabecalhoIndicador, LinhaIdentificacao, LinhaNumeroLongo}

\* what pagina.extract_text() may return: None, an empty or blank string, or
\* the text of the page
TextosDePagina ==
    {None, Some(<<>>), Some(<<" ", " ">>), Some(PaginaDuasLinhas)} \cup {Some(l) : l \in Linhas}

FilenamePdf == <<"a", ".", "p", "d", "f">>

FilenamePdfUpper == <<"A", ".", "P", "D", "F">>

FilenameTxt == <<"a", ".", "p", "d", "f", ".", "t", "x", "t">>

Filenames == {FilenamePdf, FilenamePdfUpper, FilenameTxt, <<>>}

\* the number of pages of the uploaded PDF is at most MaxPages
MaxPages == 3

(***************************************************************************)
(* State                                                                   *)
(***************************************************************************)
VARIABLES
    pc,              \* position of the request handler processar_cnis_pdf
    filename,        \* file.filename of the upload
    npaginas,        \* pages of the PDF visited by the extraction loop
    texto_extraido,  \* main.py: texto_extraido
    resposta,        \* None until the handler returns, then the response
    linhas,          \* parse_cnis: linhas = texto.split("\n")
    idx,             \* parse_cnis: position of the for loop in linhas
    vinculo_atual,   \* parse_cnis: vinculo_atual (None or the open record)
    bloco_linhas,    \* parse_cnis: bloco_linhas
    resultado,       \* parse_cnis: resultado
    gatilhos         \* history: positions in linhas that took the trigger branch

vars == <<pc, filename, npaginas, texto_extraido, resposta, linhas, idx,
          vinculo_atual, bloco_linhas, resultado, gatilhos>>

parserVars == <<linhas, idx, vinculo_atual, bloco_linhas, resultado, gatilhos>>

DotPdf == <<".", "p", "d", "f">>

StatusBadRequest == 400

StatusOk == 200

\* Python truthiness of an Optional[str]
Truthy(opt) == opt # None /\ opt[1] # <<>>

\* the file-name test with ".pdf" in name instead of endswith
IsPdfNameContem(name) == Contains(Lower(name), DotPdf)

\* main.py line 22: file.filename.lower().endswith(".pdf")
IsPdfName(name) == EndsWith(Lower(name), DotPdf)

\* closing a record: the back-fill of ultima_remuneracao from the block
FechaVinculo(v, bloco) ==
    IF ~Truthy(v.ultima_remuneracao)
    THEN [v EXCEPT !.ultima_remuneracao = ExtractUltimaRemunFromBlock(bloco)]
    ELSE v

\* lines 305-311: the entry for the match mrem.  The field linha of an entry
\* is history (the dict has no such key): the position in linhas of the line
\* it comes from.
ComRemuneracao(v, mrem, i) ==
    IF mrem # None
    THEN [v EXCEPT !.remuneracoes =
              Append(@, [competencia |-> mrem[1].g1,
                         valor       |-> ToFloatPtbr(mrem[1].g2),
                         linha       |-> i])]
    ELSE v

\* one entry for each of the matches todos
EntradasDeTodos(todos, i) ==
    [k \in DOMAIN todos |-> [competencia |-> todos[k].g1,
                             valor       |-> ToFloatPtbr(todos[k].g2),
                             linha       |-> i]]

\* ColetaRemuneracao with finditer: one entry for every match of the line
ColetaTodosOsMatches(v, ln, i) ==
    IF IsNoiseLineForRemun(ln) THEN v
    ELSE [v EXCEPT !.remuneracoes = @ \o EntradasDeTodos(RemunFindAll(ln, 1), i)]

\* the remuneration scan of one line ln (position i of linhas) for the open
\* record v
ColetaRemuneracao(v, ln, i) ==
    IF IsNoiseLineForRemun(ln) THEN v ELSE ComRemuneracao(v, RemunSearch(ln), i)

\* the record literal of parse_cnis.  The field linha is history (the dict
\* has no such key): the position in linhas of the line that opened the
\* record.
MontaVinculo(i, d, e, m) ==
    [sequencial         |-> e.sequencial,
     nit_vinculo        |-> e.nit_vinculo,
     nome_empresa       |-> e.nome_empresa,
     codigo_emp         |-> e.codigo_emp,
     origem_vinculo     |-> None,
     tipo_vinculo       |-> "EMPREGADO",
     data_inicio        |-> d.data_inicio,
     data_fim           |-> d.data_fim,
     ultima_remuneracao |-> m.ultima_remun_linha,
     matricula          |-> m.matricula,
     indicadores        |-> m.indicadores,
     remuneracoes       |-> <<>>,
     linha              |-> i]

\* lines 269-289, d being the result of _extract_datas_from_line
VinculoComDatas(ln, i, d) ==
    MontaVinculo(i, d, ExtractNitAndCodigoAndEmpresa(ln, d.idx_inicio_data1),
                 ExtractMatriculaAndIndicadores(ln, d.idx_fim_ultima_data))

\* NovoVinculo with the keyword written as in the text
NovoVinculoTipoMinusculo(ln, i) ==
    [VinculoComDatas(ln, i, ExtractDatasFromLine(ln)) EXCEPT !.tipo_vinculo = "Empregado"]

\* NovoVinculo without the continue of line 292: the trigger line is scanned
\* for remuneration as well
NovoVinculoSemContinue(ln, i) ==
    ColetaRemuneracao(VinculoComDatas(ln, i, ExtractDatasFromLine(ln)), ln, i)

\* lines 268-289: the record opened by the trigger line ln found at position
\* i of linhas
NovoVinculo(ln, i) == VinculoComDatas(ln, i, ExtractDatasFromLine(ln))

\* AppendVinculo inserting at the front
AppendVinculoNoInicio(res, v) == [res EXCEPT !.vinculos = <<v>> \o @]

\* AppendVinculo overwriting the list
AppendVinculoSubstitui(res, v) == [res EXCEPT !.vinculos = <<v>>]

\* resultado["vinculos"].append(v)
AppendVinculo(res, v) == [res EXCEPT !.vinculos = Append(@, v)]

ResultadoVazio == [identificacao |-> [cpf |-> None, nit |-> None], vinculos |-> <<>>]

Init ==
    /\ pc = "inicio"
    /\ filename \in Filenames
    /\ npaginas = 0
    /\ texto_extraido = <<>>
    /\ resposta = None
    /\ linhas = <<>>
    /\ idx = 0
    /\ vinculo_atual = None
    /\ bloco_linhas = <<>>
    /\ resultado = ResultadoVazio
    /\ gatilhos = <<>>

(***************************************************************************)
(* processar_cnis_pdf                                                      *)
(***************************************************************************)
\* the file name does not end in .pdf: 400
RejeitaNome ==
    /\ pc = "inicio"
    /\ ~IsPdfName(filename)
    /\ resposta' = Some([status_code |-> StatusBadRequest, conteudo |-> "Envie um arquivo PDF"])
    /\ pc' = "fim"
    /\ UNCHANGED <<filename, npaginas, texto_extraido>>
    /\ UNCHANGED parserVars

\* the file name passes: texto_extraido = "" and pdfplumber opens the file
AbrePdf ==
    /\ pc = "inicio"
    /\ IsPdfName(filename)
    /\ texto_extraido' = <<>>
    /\ pc' = "extraindo"
    /\ UNCHANGED <<filename, npaginas, resposta>>
    /\ UNCHANGED parserVars

\* one iteration of the loop over pdf.pages
ExtraiPagina(texto_pagina) ==
    /\ pc = "extraindo"
    /\ npaginas < MaxPages
    /\ npaginas' = npaginas + 1
    /\ texto_extraido' = IF Truthy(texto_pagina)
                         THEN texto_extraido \o texto_pagina[1] \o <<"\n">>
                         ELSE texto_extraido
    /\ UNCHANGED <<pc, filename, resposta>>
    /\ UNCHANGED parserVars

\* the loop is over and the text is empty or blank: 400
RejeitaTexto ==
    /\ pc = "extraindo"
    /\ Strip(texto_extraido) = <<>>
    /\ resposta' = Some([status_code |-> StatusBadRequest,
                         conteudo |-> "Não foi possível extrair texto do PDF"])
    /\ pc' = "fim"
    /\ UNCHANGED <<filename, npaginas, texto_extraido>>
    /\ UNCHANGED parserVars

(***************************************************************************)
(* parse_cnis                                                              *)
(***************************************************************************)
\* the call parse_cnis(texto_extraido), up to the for loop
ChamaParse ==
    /\ pc = "extraindo"
    /\ Strip(texto_extraido) # <<>>
    /\ resultado' = [identificacao |-> Identificacao(texto_extraido), vinculos |-> <<>>]
    /\ linhas' = SplitOn(texto_extraido, "\n")
    /\ idx' = 1
    /\ vinculo_atual' = None
    /\ bloco_linhas' = <<>>
    /\ gatilhos' = <<>>
    /\ pc' = "parse"
    /\ UNCHANGED <<filename, npaginas, texto_extraido, resposta>>

NoLoop == pc = "parse" /\ idx <= Len(linhas)

\* ln of the current iteration
Ln == Strip(linhas[idx])

\* a blank line: continue
LinhaEmBranco ==
    /\ NoLoop
    /\ Ln = <<>>
    /\ idx' = idx + 1
    /\ UNCHANGED <<pc, filename, npaginas, texto_extraido, resposta, linhas,
                   vinculo_atual, bloco_linhas, resultado, gatilhos>>

\* a trigger line: close the open record, open a new one, reset the block
Gatilho ==
    /\ NoLoop
    /\ Ln # <<>>
    /\ IsLikelyVinculoLine(Ln)
    /\ resultado' = IF vinculo_atual # None
                    THEN AppendVinculo(resultado, FechaVinculo(vinculo_atual[1], bloco_linhas))
                    ELSE resultado
    /\ vinculo_atual' = Some(NovoVinculo(Ln, idx))
    /\ bloco_linhas' = <<>>
    /\ gatilhos' = Append(gatilhos, idx)
    /\ idx' = idx + 1
    /\ UNCHANGED <<pc, filename, npaginas, texto_extraido, resposta, linhas>>

\* a line inside the block of an open record
Coleta ==
    /\ NoLoop
    /\ Ln # <<>>
    /\ ~IsLikelyVinculoLine(Ln)
    /\ vinculo_atual # None /\ vinculo_atual[1].tipo_vinculo = "EMPREGADO"
    /\ bloco_linhas' = Append(bloco_linhas, Ln)
    /\ vinculo_atual' = Some(ColetaRemuneracao(vinculo_atual[1], Ln, idx))
    /\ idx' = idx + 1
    /\ UNCHANGED <<pc, filename, npaginas, texto_extraido, resposta, linhas,
                   resultado, gatilhos>>

\* a line before the first record: nothing to do
LinhaSemVinculo ==
    /\ NoLoop
    /\ Ln # <<>>
    /\ ~IsLikelyVinculoLine(Ln)
    /\ ~(vinculo_atual # None /\ vinculo_atual[1].tipo_vinculo = "EMPREGADO")
    /\ idx' = idx + 1
    /\ UNCHANGED <<pc, filename, npaginas, texto_extraido, resposta, linhas,
                   vinculo_atual, bloco_linhas, resultado, gatilhos>>

\* end of the loop: close the last record, return, and the handler answers
Retorna ==
    /\ pc = "parse"
    /\ idx > Len(linhas)
    /\ vinculo_atual' = IF vinculo_atual # None
                        THEN Some(FechaVinculo(vinculo_atual[1], bloco_linhas))
                        ELSE vinculo_atual
    /\ resultado' = IF vinculo_atual # None
                    THEN AppendVinculo(resultado, FechaVinculo(vinculo_atual[1], bloco_linhas))
                    ELSE resultado
    /\ resposta' = Some([status_code |-> StatusOk, conteudo |-> "sucesso"])
    /\ pc' = "fim"
    /\ UNCHANGED <<filename, npaginas, texto_extraido, linhas, idx, bloco_linhas, gatilhos>>

Next ==
    \/ RejeitaNome
    \/ AbrePdf
    \/ \E texto_pagina \in TextosDePagina : ExtraiPagina(texto_pagina)
    \/ RejeitaTexto
    \/ ChamaParse
    \/ LinhaEmBranco
    \/ Gatilho
    \/ Coleta
    \/ LinhaSemVinculo
    \/ Retorna

Spec == Init /\ [][Next]_vars

(***************************************************************************)
(* Properties.  They are stated over the text (linhas), the history        *)
(* (gatilhos and the linha fields) and the output, not over the operators  *)
(* the actions are built from.                                             *)
(***************************************************************************)
Vinculos == resultado.vinculos

Respondeu(status) == resposta # None /\ resposta[1].status_code = status

\* position of the first trigger after line l, Len(linhas) + 1 if none
ProxGatilho(l) ==
    LET later == {g \in Range(gatilhos) : g > l}
    IN  IF later = {} THEN Len(linhas) + 1
        ELSE CHOOSE g \in later : \A h \in later : g <= h

\* the stripped non-blank lines strictly between positions l and hi
LinhasEntre(l, hi) ==
    LET seg == [j \in 1..(hi - 1 - l) |-> Strip(linhas[l + j])]
    IN  SelectSeq(seg, LAMBDA x : x # <<>>)

\* positions of the entries of record v that come from line j
EntradasDe(v, j) == {e \in DOMAIN v.remuneracoes : v.remuneracoes[e].linha = j}

\* C1: every record of the output has tipo_vinculo EMPREGADO and at least
\* one identifying attribute (data_inicio, sequencial, codigo_emp,
\* nome_empresa, nit_vinculo) that is not None; no phantom record is emitted
\* by a trigger or by the end of the document.
C1_SemVinculoFantasma ==
    \A k \in DOMAIN Vinculos :
        LET v == Vinculos[k]
        IN  /\ v.tipo_vinculo = "EMPREGADO"
            /\ \/ v.data_inicio # None
               \/ v.sequencial # None
               \/ v.codigo_emp # None
               \/ v.nome_empresa # None
               \/ v.nit_vinculo # None

\* two records with no employer name, code or NIT, the first closed by a
\* trigger and the second by the end of the document
W1_VinculosMinimos ==
    /\ pc = "fim"
    /\ Len(Vinculos) = 2
    /\ \A k \in 1..2 : /\ Vinculos[k].nome_empresa = None
                       /\ Vinculos[k].codigo_emp = None
                       /\ Vinculos[k].nit_vinculo = None

\* C2: every entry of a record's remuneracoes comes from a line strictly
\* after the record's trigger line and strictly before the next trigger (or
\* the end of the document), that line does carry the entry's competency,
\* the entries are in document order, and no line feeds two records.
C2_RemuneracoesDoBloco ==
    \A k \in DOMAIN Vinculos :
        LET v == Vinculos[k]
            r == v.remuneracoes
        IN  /\ \A e \in DOMAIN r :
                  /\ v.linha < r[e].linha
                  /\ r[e].linha < ProxGatilho(v.linha)
                  /\ \E i \in DOMAIN Strip(linhas[r[e].linha]) :
                        /\ RE_REMUN(Strip(linhas[r[e].linha]), i)
                        /\ RemunGroups(Strip(linhas[r[e].linha]), i).g1 = r[e].competencia
            /\ \A e1, e2 \in DOMAIN r : e1 < e2 => r[e1].linha <= r[e2].linha
            /\ \A j \in DOMAIN Vinculos :
                  j # k => \A e \in DOMAIN r : EntradasDe(Vinculos[j], r[e].linha) = {}

\* a remuneration line before the first trigger, then two records with one
\* remuneration each
W2_RemuneracaoAntesEDepois ==
    /\ pc = "fim"
    /\ Len(Vinculos) = 2
    /\ \A k \in 1..2 : Len(Vinculos[k].remuneracoes) = 1
    /\ \E l \in DOMAIN linhas : l < Vinculos[1].linha /\ RemunSearch(Strip(linhas[l])) # None

\* C3: the records are in the order of their trigger lines: record k was
\* opened by the k-th line that took the trigger branch, its start date is
\* the first date of that line, and the record closed by the end of the
\* document comes last.
C3_OrdemDosGatilhos ==
    /\ Len(Vinculos) <= Len(gatilhos)
    /\ \A k \in DOMAIN Vinculos :
          /\ Vinculos[k].linha = gatilhos[k]
          /\ Vinculos[k].data_inicio =
                 ExtractDatasFromLine(Strip(linhas[gatilhos[k]])).data_inicio
    /\ \A j, k \in DOMAIN Vinculos : j < k => Vinculos[j].linha < Vinculos[k].linha
    /\ (Respondeu(StatusOk) /\ gatilhos # <<>>) =>
           Vinculos[Len(Vinculos)].linha = gatilhos[Len(gatilhos)]

\* three records from lines with different sequentials
W3_TresVinculosEmOrdem ==
    /\ pc = "fim"
    /\ Len(Vinculos) = 3
    /\ Vinculos[1].sequencial # Vinculos[2].sequencial
    /\ Vinculos[2].sequencial # Vinculos[3].sequencial

\* number of lines of the document that are trigger lines
NumLinhasGatilho ==
    Cardinality({l \in DOMAIN linhas :
                    Strip(linhas[l]) # <<>> /\ IsLikelyVinculoLine(Strip(linhas[l]))})

\* C10: when parse_cnis returns, vinculos has exactly one record per trigger
\* line of the document (none for a document without trigger lines), and a
\* record, once appended, is never changed or removed.
C10_UmVinculoPorGatilho ==
    /\ [](Respondeu(StatusOk) => Len(Vinculos) = NumLinhasGatilho)
    /\ [][\A k \in DOMAIN Vinculos :
              k \in DOMAIN resultado'.vinculos /\ resultado'.vinculos[k] = Vinculos[k]]_vars

\* a document with a header line that is not a trigger and two trigger lines
W10_DoisGatilhosEUmCabecalho ==
    /\ pc = "fim"
    /\ Len(Vinculos) = 2
    /\ NumLinhasGatilho = 2
    /\ \E l \in DOMAIN linhas : Strip(linhas[l]) = LinhaCabecalhoOrigem

\* the records of the output and, while parse_cnis runs, the open record,
\* each with the position where its block ends
Blocos ==
    {[v |-> Vinculos[k], fim |-> ProxGatilho(Vinculos[k].linha)] : k \in DOMAIN Vinculos}
    \cup (IF pc = "parse" /\ vinculo_atual # None
          THEN {[v |-> vinculo_atual[1], fim |-> idx]} ELSE {})

\* positions of the non-blank lines of the block of b
LinhasDoBloco(b) == {j \in (b.v.linha + 1)..(b.fim - 1) : Strip(linhas[j]) # <<>>}

\* report furniture as the code tests it: "emitido", "página" or "pagina" in
\* the lower-cased line, or "indicador" in the line and "descrição" in the
\* lower-cased line
Mobilia(ln) ==
    \/ Contains(Lower(ln), Emitido)
    \/ Contains(Lower(ln), PaginaAcento)
    \/ Contains(Lower(ln), Pagina)
    \/ Contains(ln, <<"i", "n", "d", "i", "c", "a", "d", "o", "r">>) /\ Contains(Lower(ln), <<"d", "e", "s", "c", "r", "i", "ç", "ã", "o">>)

\* report furniture as the specification describes it: "emitido", "página" or
\* "pagina", or a header row
MobiliaDaSpec(ln) ==
    \/ Contains(Lower(ln), Emitido)
    \/ Contains(Lower(ln), PaginaAcento)
    \/ Contains(Lower(ln), Pagina)
    \/ Contains(ln, Indicador) /\ Contains(ln, Descricao)

\* C5 as claimed: a furniture line inside an open record's block that holds a
\* month/year followed by an amount gives the record an entry.
C5_Original_MobiliaColetada ==
    \A b \in Blocos : \A j \in LinhasDoBloco(b) :
        (MobiliaDaSpec(Strip(linhas[j])) /\ RemunFindAll(Strip(linhas[j]), 1) # <<>>)
            => EntradasDe(b.v, j) # {}

\* C5 amended: a furniture line inside an open record's block gives the
\* record no entry, whatever it holds; it only joins the block buffer.
C5_MobiliaNaoColetada ==
    /\ \A b \in Blocos : \A j \in LinhasDoBloco(b) :
          Mobilia(Strip(linhas[j])) => EntradasDe(b.v, j) = {}
    /\ (pc = "parse" /\ vinculo_atual # None) =>
          \A j \in (vinculo_atual[1].linha + 1)..(idx - 1) :
              Mobilia(Strip(linhas[j])) => Strip(linhas[j]) \in Range(bloco_linhas)

\* a record whose block is a footer line that holds a competency and an
\* amount, and that has no remuneration
W5_RodapeComValor ==
    /\ pc = "fim"
    /\ Len(Vinculos) = 1
    /\ Vinculos[1].remuneracoes = <<>>
    /\ \E j \in (Vinculos[1].linha + 1)..Len(linhas) :
          Strip(linhas[j]) = LinhaRodape /\ RemunSearch(LinhaRodape) # None

\* C6 as claimed: a line of an open record's block with k matches gives the
\* record exactly k entries.
C6_Original_UmaEntradaPorMatch ==
    \A b \in Blocos : \A j \in LinhasDoBloco(b) :
        Cardinality(EntradasDe(b.v, j)) = Len(RemunFindAll(Strip(linhas[j]), 1))

\* C6 amended: a line of an open record's block gives the record one entry,
\* for its leftmost match, when it is not furniture and has at least one
\* match, and no entry otherwise; a line with two pairs gives one entry.
C6_PrimeiroMatchPorLinha ==
    \A b \in Blocos : \A j \in LinhasDoBloco(b) :
        LET ln == Strip(linhas[j])
            i  == First(ln, 1, RE_REMUN)
        IN  IF i # 0 /\ ~Mobilia(ln)
            THEN /\ Cardinality(EntradasDe(b.v, j)) = 1
                 /\ \A e \in EntradasDe(b.v, j) :
                       b.v.remuneracoes[e].competencia = SubSeq(ln, i, i + MesAnoWidth - 1)
            ELSE EntradasDe(b.v, j) = {}

\* a record whose block is the line with two pairs: one entry, for 02/2020
\* and the negative amount -150.0
W6_LinhaDuplaUmaEntrada ==
    /\ pc = "fim"
    /\ Len(Vinculos) = 1
    /\ \E j \in (Vinculos[1].linha + 1)..Len(linhas) : Strip(linhas[j]) = LinhaRemunDupla
    /\ Len(RemunFindAll(LinhaRemunDupla, 1)) = 2
    /\ Len(Vinculos[1].remuneracoes) = 1
    /\ Vinculos[1].remuneracoes[1].competencia = <<"0", "2", "/", "2", "0", "2", "0">>
    /\ Vinculos[1].remuneracoes[1].valor = Some([neg |-> TRUE, inteiro |-> 150, frac |-> <<>>])

\* positions of the non-blank lines handled so far
LinhasTratadas ==
    {j \in DOMAIN linhas : Strip(linhas[j]) # <<>> /\ (pc = "fim" \/ j < idx)}

OrigemDoVinculo == <<"O", "r", "i", "g", "e", "m", " ", "d", "o", " ", "V", "í", "n", "c", "u", "l", "o">>

CodigoEmp == <<"C", "ó", "d", "i", "g", "o", " ", "E", "m", "p", ".">>

\* C7 as claimed: a line is treated as a trigger iff it begins with a short
\* number or holds a known header phrase, holds the word Empregado and a
\* full date, and is not a column header.
C7_Original_GatilhoComCabecalho ==
    \A j \in LinhasTratadas :
        LET ln == Strip(linhas[j])
        IN  j \in Range(gatilhos) <=>
                /\ \/ SeqInicioSearch(ln) # None
                   \/ Contains(ln, OrigemDoVinculo)
                   \/ Contains(ln, CodigoEmp)
                /\ \E i \in DOMAIN ln : RE_EMPREGADO_TOKEN(ln, i)
                /\ \E i \in DOMAIN ln : RE_DATA(ln, i)
                /\ ~(Contains(ln, Indicador) /\ Contains(ln, Descricao))

\* C7 amended: a line is treated as a trigger iff it begins with a number of
\* one to four digits followed by whitespace, holds the word Empregado and a
\* full date, and does not hold both "Indicador" and "Descrição"; a header
\* phrase does not stand in for the leading number.
C7_GatilhoExigeSequencial ==
    \A j \in LinhasTratadas :
        LET ln == Strip(linhas[j])
            n  == RunLen(ln, 1, IsDigit)
        IN  j \in Range(gatilhos) <=>
                /\ n >= 1 /\ n <= SeqMaxDigits /\ n < Len(ln) /\ IsSpace(ln[n + 1])
                /\ \E i \in DOMAIN ln : RE_EMPREGADO_TOKEN(ln, i)
                /\ \E i \in DOMAIN ln : RE_DATA(ln, i)
                /\ ~(Contains(ln, Indicador) /\ Contains(ln, Descricao))

\* a document with a trigger line, the header-phrase line and the column
\* header line: only the first is a trigger
W7_SoSequencialDispara ==
    /\ pc = "fim"
    /\ Len(gatilhos) = 1
    /\ Strip(linhas[gatilhos[1]]) = LinhaVinculoMinimo
    /\ \E j \in LinhasTratadas : Strip(linhas[j]) = LinhaCabecalhoOrigem
    /\ \E j \in LinhasTratadas : Strip(linhas[j]) = LinhaCabecalhoIndicador

\* the last month/year token of the lines strictly between l and hi: the
\* last token of the last of those lines that has one
UltimoMesAnoEntre(l, hi) ==
    LET com == {j \in (l + 1)..(hi - 1) : \E i \in DOMAIN Strip(linhas[j]) :
                                              RE_MES_ANO(Strip(linhas[j]), i)}
        j   == CHOOSE x \in com : \A y \in com : x >= y
        ln  == Strip(linhas[j])
        i   == CHOOSE x \in DOMAIN ln :
                   RE_MES_ANO(ln, x) /\ \A y \in (x + 1)..Len(ln) : ~RE_MES_ANO(ln, y)
    IN  IF com = {} THEN None ELSE Some(SubSeq(ln, i, i + MesAnoWidth - 1))

\* the month/year found between the last date and the word Empregado of the
\* trigger line at position l
MesAnoNaLinha(l) ==
    LET ln == Strip(linhas[l])
    IN  ExtractMatriculaAndIndicadores(ln, ExtractDatasFromLine(ln).idx_fim_ultima_data)
            .ultima_remun_linha

\* C8: a closed record's ultima_remuneracao is the month/year of its trigger
\* line when there is one, otherwise the last month/year token of the lines
\* of its own block, otherwise None, whether a trigger or the end of the
\* document closed it; and the block buffer holds exactly the non-blank lines
\* seen since the open record's trigger line.
C8_UltimaRemuneracao ==
    /\ \A k \in DOMAIN Vinculos :
          LET v == Vinculos[k]
          IN  v.ultima_remuneracao =
                  IF MesAnoNaLinha(v.linha) # None THEN MesAnoNaLinha(v.linha)
                  ELSE UltimoMesAnoEntre(v.linha, ProxGatilho(v.linha))
    /\ (pc = "parse" /\ vinculo_atual # None) =>
           bloco_linhas = LinhasEntre(vinculo_atual[1].linha, idx)
    /\ (pc = "parse" /\ vinculo_atual = None) => bloco_linhas = <<>>

\* a record without inline value that gets the 01/2020 of its own block when
\* the next trigger closes it, and a record that keeps the 03/2020 of its
\* trigger line at the end of the document although its block ends with
\* 01/2020
W8_PreenchidoEInline ==
    /\ pc = "fim"
    /\ Len(Vinculos) = 2
    /\ MesAnoNaLinha(Vinculos[1].linha) = None
    /\ Vinculos[1].ultima_remuneracao = Some(<<"0", "1", "/", "2", "0", "2", "0">>)
    /\ MesAnoNaLinha(Vinculos[2].linha) = Some(<<"0", "3", "/", "2", "0", "2", "0">>)
    /\ UltimoMesAnoEntre(Vinculos[2].linha, Len(linhas) + 1) = Some(<<"0", "1", "/", "2", "0", "2", "0">>)
    /\ Vinculos[2].ultima_remuneracao = Some(<<"0", "3", "/", "2", "0", "2", "0">>)

\* parse_cnis has been called
ParseChamado == linhas # <<>>

\* C9: parse_cnis is called only for an upload whose file name ends in .pdf
\* (in any letter case) and whose extracted text has a non-blank character;
\* any other upload is answered with 400 and never reaches parse_cnis, and no
\* page is extracted before the file name has passed.
C9_ValidacaoAntesDoParse ==
    LET nomePdf    == EndsWith(Lower(filename), DotPdf)
        textoVazio == \A k \in DOMAIN texto_extraido : IsSpace(texto_extraido[k])
    IN  /\ ParseChamado => (nomePdf /\ ~textoVazio)
        /\ (pc = "fim" /\ (~nomePdf \/ textoVazio)) =>
               (Respondeu(StatusBadRequest) /\ ~ParseChamado)
        /\ (pc = "extraindo" \/ npaginas > 0 \/ texto_extraido # <<>>) => nomePdf

\* a PDF whose pages give only blank text is answered with 400 without
\* parse_cnis
W9_TextoEmBrancoRejeitado ==
    /\ pc = "fim"
    /\ IsPdfName(filename)
    /\ npaginas >= 2
    /\ texto_extraido # <<>>
    /\ Respondeu(StatusBadRequest)
    /\ ~ParseChamado

\* month and year of a DD/MM/YYYY or MM/YYYY string, as months since year 0
MesesDe(txt) ==
    LET my == SubSeq(txt, Len(txt) - MesAnoWidth + 1, Len(txt))
    IN  12 * ToInt(SubSeq(my, 4, 7)) + ToInt(SubSeq(my, 1, 2)) - 1

\* the MM/YYYY string of a number of months since year 0
FormataMesAno(t) ==
    LET m == (t % 12) + 1
        y == t \div 12
    IN  <<Digits[(m \div 10) + 1], Digits[(m % 10) + 1], "/",
          Digits[((y \div 1000) % 10) + 1], Digits[((y \div 100) % 10) + 1],
          Digits[((y \div 10) % 10) + 1], Digits[(y % 10) + 1]>>

\* every month/year from the first to the last, both included; empty when the
\* first is after the last
CompetenciasEntre(primeiro, ultimo) ==
    IF ultimo < primeiro THEN <<>>
    ELSE [k \in 1..(ultimo - primeiro + 1) |-> FormataMesAno(primeiro + k - 1)]

\* C4 as claimed: a record with a start date and an effective end (the month
\* of data_fim, else ultima_remuneracao) carries the expected competencies,
\* every month from the start to the effective end, and the missing ones,
\* which together with the observed expected ones give the expected ones,
\* without duplicates.
C4_CompetenciasEsperadas ==
    \A k \in DOMAIN Vinculos :
        LET v    == Vinculos[k]
            fim  == IF v.data_fim # None THEN v.data_fim ELSE v.ultima_remuneracao
            esp  == CompetenciasEntre(MesesDe(v.data_inicio[1]), MesesDe(fim[1]))
            obs  == {v.remuneracoes[e].competencia : e \in DOMAIN v.remuneracoes}
        IN  (v.data_inicio # None /\ fim # None) =>
                /\ "competencias_esperadas" \in DOMAIN v
                /\ "competencias_faltantes" \in DOMAIN v
                /\ v.competencias_esperadas = esp
                /\ Range(v.competencias_faltantes) \cup (obs \cap Range(esp)) = Range(esp)
                /\ Cardinality(Range(v.competencias_faltantes)) = Len(v.competencias_faltantes)

====
